---- MODULE Spec2Model ----
(***************************************************************************)
(* A model of web_transcriptor.py: the overlap merger                      *)
(* (merge_captions_global), the segment refiner (refine_segments) and the  *)
(* two converters (convert_vtt_to_html_minimal, convert_vtt_to_html_full). *)
(*                                                                         *)
(* A text is a sequence of one-character strings, so that str.strip,       *)
(* str.split, " ".join and the `in` substring test are modelled by what    *)
(* they do on characters.  A timestamp is a number: the code only copies   *)
(* timestamps, it never computes with them.                                *)
(***************************************************************************)
EXTENDS Integers, Sequences, FiniteSets, TLC

VARIABLES
    pc,                 \* the position of the running function
    captions,           \* list(webvtt.read(vtt_file)) / the captions argument
    min_overlap_words,  \* merge_captions_global's threshold k
    idx,                \* 1-based index of the element the running loop is at
    current_start,      \* merge_captions_global: the running segment
    current_end,
    current_text,
    merged_segments,    \* merge_captions_global: the segments emitted so far
    current_captions,   \* history: indices of the captions in the running segment
    segment_captions,   \* history: the same for each emitted segment
    segments,           \* refine_segments' argument / the full mode's segments
    min_words,          \* refine_segments' threshold m
    refined,            \* refine_segments: the output list
    PunctuationModel,   \* the module-level name: "None" or "class"
    model,              \* full mode: the punctuation model object
    html,               \* the list of document lines built so far
    file                \* the output file: <<>> (not written) or <<lines>>

vars == <<pc, captions, min_overlap_words, idx, current_start, current_end,
          current_text, merged_segments, current_captions, segment_captions,
          segments, min_words, refined, PunctuationModel, model, html, file>>

mergeVars == <<current_start, current_end, current_text, merged_segments,
               current_captions, segment_captions>>
refineVars == <<segments, min_words, refined>>
outVars == <<PunctuationModel, model, html, file>>

----------------------------------------------------------------------------
(* Bounds of the inputs.                                                   *)

MaxCaptions == 2     \* longest caption list
MaxLen == 3          \* longest raw caption text, in characters
MaxOverlap == 2      \* largest threshold k tried
MaxSegments == 3     \* longest segment list given to refine_segments
MaxWords == 3        \* largest threshold m tried
MaxTime == 1         \* largest timestamp of the timed caption lists

DefaultMinOverlapWords == 3   \* min_overlap_words=3
DefaultMinWords == 3          \* min_words=3

Chars == {"a", " "}
Whitespace == {" "}

Texts == UNION {[1..n -> Chars] : n \in 0..MaxLen}

----------------------------------------------------------------------------
(* Text operations of Python the code relies on.                           *)

SetMin(S) == CHOOSE x \in S : \A y \in S : x <= y
SetMax(S) == CHOOSE x \in S : \A y \in S : x >= y

\* str.strip(): drop leading and trailing whitespace.
Strip(t) ==
    LET keep == {i \in 1..Len(t) : t[i] \notin Whitespace}
    IN  IF keep = {} THEN <<>> ELSE SubSeq(t, SetMin(keep), SetMax(keep))

\* str.split(): the maximal runs of non-whitespace characters, in order.
RECURSIVE Split(_)
Split(t) ==
    LET s == Strip(t)
        ws == {i \in 1..Len(s) : s[i] \in Whitespace}
    IN  IF s = <<>> THEN <<>>
        ELSE IF ws = {} THEN <<s>>
        ELSE <<SubSeq(s, 1, SetMin(ws) - 1)>>
                 \o Split(SubSeq(s, SetMin(ws) + 1, Len(s)))

\* " ".join(words)
RECURSIVE Join(_)
Join(words) ==
    IF words = <<>> THEN <<>>
    ELSE IF Len(words) = 1 THEN words[1]
    ELSE words[1] \o <<" ">> \o Join(Tail(words))

\* IsSubstring comparing one character too few of the prefix.
IsSubstringShort(p, t) ==
    \E o \in 0..(Len(t) - Len(p) + 1) :
        SubSeq(t, o + 1, o + Len(p) - 1) = SubSeq(p, 1, Len(p) - 1)

\* prefix in current_text: a contiguous run of characters of t equals p.
IsSubstring(p, t) ==
    \E o \in 0..(Len(t) - Len(p)) : SubSeq(t, o + 1, o + Len(p)) = p

----------------------------------------------------------------------------
(* merge_captions_global                                                   *)

\* The search loop: the first i, from len(curr_words) down to k, whose prefix
\* occurs in current_text; 0 (the initial overlap_found) when there is none.
RECURSIVE SearchFrom(_, _, _, _)
SearchFrom(i, curr_words, text, k) ==
    IF i < k THEN 0
    ELSE IF IsSubstring(Join(SubSeq(curr_words, 1, i)), text) THEN i
    ELSE SearchFrom(i - 1, curr_words, text, k)

\* OverlapFound searching from the shortest prefix up.
OverlapFoundShortest(curr_words, text, k) ==
    LET found == {i \in k..Len(curr_words) :
                     IsSubstring(Join(SubSeq(curr_words, 1, i)), text)}
    IN  IF found = {} THEN 0 ELSE SetMin(found)

OverlapFound(curr_words, text, k) ==
    SearchFrom(Len(curr_words), curr_words, text, k)

\* current_text after a caption with overlap_found leading words elided.
Extended(text, curr_words, overlap_found) ==
    LET non_overlap == Join(SubSeq(curr_words, overlap_found + 1, Len(curr_words)))
    IN  IF non_overlap # <<>> THEN text \o <<" ">> \o non_overlap ELSE text

MergeEmpty ==
    /\ pc = "merge"
    /\ captions = <<>>
    /\ merged_segments' = <<>>
    /\ pc' = "done"
    /\ UNCHANGED <<captions, min_overlap_words, idx, current_start, current_end,
                   current_text, current_captions, segment_captions,
                   refineVars, outVars>>

MergeSeed ==
    /\ pc = "merge"
    /\ captions # <<>>
    /\ current_start' = captions[1].start
    /\ current_end' = captions[1].end
    /\ current_text' = Strip(captions[1].text)
    /\ merged_segments' = <<>>
    /\ current_captions' = {1}
    /\ segment_captions' = <<>>
    /\ idx' = 2
    /\ pc' = "merge_loop"
    /\ UNCHANGED <<captions, min_overlap_words, refineVars, outVars>>

MergeSkip ==
    /\ pc = "merge_loop"
    /\ idx <= Len(captions)
    /\ Strip(captions[idx].text) = <<>>
    /\ idx' = idx + 1
    /\ UNCHANGED <<pc, captions, min_overlap_words, mergeVars, refineVars, outVars>>

\* MergeOverlap without the update of current_end.
MergeOverlapKeepsEnd ==
    /\ pc = "merge_loop"
    /\ idx <= Len(captions)
    /\ LET curr_text == Strip(captions[idx].text)
           curr_words == Split(curr_text)
           overlap_found == OverlapFound(curr_words, current_text, min_overlap_words)
       IN  /\ curr_text # <<>>
           /\ overlap_found >= min_overlap_words
           /\ current_text' = Extended(current_text, curr_words, overlap_found)
    /\ current_captions' = current_captions \cup {idx}
    /\ idx' = idx + 1
    /\ UNCHANGED <<pc, captions, min_overlap_words, current_start, current_end,
                   merged_segments, segment_captions, refineVars, outVars>>

MergeOverlap ==
    /\ pc = "merge_loop"
    /\ idx <= Len(captions)
    /\ LET curr_text == Strip(captions[idx].text)
           curr_words == Split(curr_text)
           overlap_found == OverlapFound(curr_words, current_text, min_overlap_words)
       IN  /\ curr_text # <<>>
           /\ overlap_found >= min_overlap_words
           /\ current_text' = Extended(current_text, curr_words, overlap_found)
           /\ current_end' = captions[idx].end
    /\ current_captions' = current_captions \cup {idx}
    /\ idx' = idx + 1
    /\ UNCHANGED <<pc, captions, min_overlap_words, current_start, merged_segments,
                   segment_captions, refineVars, outVars>>

MergeNewSegment ==
    /\ pc = "merge_loop"
    /\ idx <= Len(captions)
    /\ LET curr_text == Strip(captions[idx].text)
           curr_words == Split(curr_text)
           overlap_found == OverlapFound(curr_words, current_text, min_overlap_words)
       IN  /\ curr_text # <<>>
           /\ ~(overlap_found >= min_overlap_words)
           /\ merged_segments' =
                  Append(merged_segments, <<current_start, current_end, current_text>>)
           /\ current_start' = captions[idx].start
           /\ current_end' = captions[idx].end
           /\ current_text' = curr_text
    /\ segment_captions' = Append(segment_captions, current_captions)
    /\ current_captions' = {idx}
    /\ idx' = idx + 1
    /\ UNCHANGED <<pc, captions, min_overlap_words, refineVars, outVars>>

MergeReturn ==
    /\ pc = "merge_loop"
    /\ idx > Len(captions)
    /\ merged_segments' =
           Append(merged_segments, <<current_start, current_end, current_text>>)
    /\ segment_captions' = Append(segment_captions, current_captions)
    /\ pc' = "done"
    /\ UNCHANGED <<captions, min_overlap_words, idx, current_start, current_end,
                   current_text, current_captions, refineVars, outVars>>

\* The caption list whose i-th caption has text txt[i] and the time window
\* [2(i-1), 2i-1]: distinct, increasing timestamps.
Spaced(txt) ==
    [i \in 1..Len(txt) |-> [start |-> 2 * (i - 1), end |-> 2 * i - 1, text |-> txt[i]]]

Idle ==
    /\ idx = 1
    /\ current_start = 0 /\ current_end = 0 /\ current_text = <<>>
    /\ merged_segments = <<>>
    /\ current_captions = {} /\ segment_captions = <<>>
    /\ refined = <<>>
    /\ model = "unset" /\ html = <<>> /\ file = <<>>

InitMerge ==
    /\ pc = "merge"
    /\ \E n \in 0..MaxCaptions : \E txt \in [1..n -> Texts] : captions = Spaced(txt)
    /\ min_overlap_words \in 1..MaxOverlap
    /\ segments = <<>> /\ min_words = DefaultMinWords
    /\ PunctuationModel = "class"
    /\ Idle

NextMerge ==
    \/ MergeEmpty
    \/ MergeSeed
    \/ MergeSkip
    \/ MergeOverlap
    \/ MergeNewSegment
    \/ MergeReturn

SpecMerge == InitMerge /\ [][NextMerge]_vars

\* merge_captions_global as a function of its arguments: the loop of lines
\* 65-88 from caption i on, acc being (current_start, current_end,
\* current_text, merged_segments).
RECURSIVE MergeFrom(_, _, _, _)
MergeFrom(caps, i, acc, k) ==
    IF i > Len(caps)
    THEN Append(acc.segs, <<acc.start, acc.end, acc.text>>)
    ELSE LET curr_text == Strip(caps[i].text)
             curr_words == Split(curr_text)
             overlap_found == OverlapFound(curr_words, acc.text, k)
         IN  IF curr_text = <<>> THEN MergeFrom(caps, i + 1, acc, k)
             ELSE IF overlap_found >= k
             THEN MergeFrom(caps, i + 1,
                            [acc EXCEPT !.text = Extended(acc.text, curr_words, overlap_found),
                                        !.end = caps[i].end], k)
             ELSE MergeFrom(caps, i + 1,
                            [start |-> caps[i].start, end |-> caps[i].end,
                             text |-> curr_text,
                             segs |-> Append(acc.segs, <<acc.start, acc.end, acc.text>>)], k)

merge_captions_global(caps, k) ==
    IF caps = <<>> THEN <<>>
    ELSE MergeFrom(caps, 2,
                   [start |-> caps[1].start, end |-> caps[1].end,
                    text |-> Strip(caps[1].text), segs |-> <<>>], k)

\* A few texts for the caption lists whose timestamps vary.
TimedTexts == {<<>>, <<"a">>, <<"a", "a">>, <<"a", " ", "a">>}

InitTimed ==
    /\ pc = "merge"
    /\ \E n \in 0..MaxCaptions :
           captions \in [1..n -> [start : 0..MaxTime, end : 0..MaxTime, text : TimedTexts]]
    /\ min_overlap_words \in 1..MaxOverlap
    /\ segments = <<>> /\ min_words = DefaultMinWords
    /\ PunctuationModel = "class"
    /\ Idle

SpecTimed == InitTimed /\ [][NextMerge]_vars

----------------------------------------------------------------------------
(* Properties of merge_captions_global.                                    *)

k == min_overlap_words

NonEmptyIdx(caps) == {i \in 1..Len(caps) : Strip(caps[i].text) # <<>>}

\* caps without its empty-text captions, order kept.
RECURSIVE DropEmpty(_)
DropEmpty(caps) ==
    IF caps = <<>> THEN <<>>
    ELSE IF Strip(caps[1].text) = <<>> THEN DropEmpty(Tail(caps))
    ELSE <<caps[1]>> \o DropEmpty(Tail(caps))

\* p occurs in t as a run of consecutive characters.
OccursIn(p, t) ==
    \E i \in 1..(Len(t) + 1) : \E j \in (i - 1)..Len(t) : SubSeq(t, i, j) = p

FirstWords(words, n) == SubSeq(words, 1, n)
WordsAfter(words, n) == SubSeq(words, n + 1, Len(words))

\* The lengths L in k..len(words) whose L-word prefix occurs in text.
MatchLengths(words, text, kk) ==
    {L \in kk..Len(words) : OccursIn(Join(FirstWords(words, L)), text)}

\* text with the given words appended, one space before each.
RECURSIVE WithWords(_, _)
WithWords(text, words) ==
    IF words = <<>> THEN text
    ELSE WithWords(text \o <<" ">> \o words[1], Tail(words))

\* The loop is at a caption whose stripped text is not empty.
AtNonEmptyCaption ==
    /\ pc = "merge_loop"
    /\ idx <= Len(captions)
    /\ Strip(captions[idx].text) # <<>>

\* C1 (as claimed): an empty-text caption is a no-op, wherever it stands in
\* the list: no returned segment starts at the start time of an empty-text
\* caption, and the result is the result for the list without its empty-text
\* captions.
C1_EmptyCaptionsAreNoOps ==
    pc = "done" =>
        /\ \A j \in 1..Len(merged_segments) :
               \A i \in 1..Len(captions) :
                   Strip(captions[i].text) = <<>> => merged_segments[j][1] # captions[i].start
        /\ merged_segments = merge_captions_global(DropEmpty(captions), k)

\* C5 (as claimed): the number of returned segments is at most the number of
\* captions and at most the number of non-empty-text captions, and the empty
\* list gives the empty list.
C5_SegmentCount ==
    pc = "done" =>
        /\ Len(merged_segments) <= Len(captions)
        /\ Len(merged_segments) <= Cardinality(NonEmptyIdx(captions))
        /\ (captions = <<>> => merged_segments = <<>>)

\* C6: at each non-empty caption after the first, with L the largest length
\* in k..(word count) whose L-word prefix, joined by single spaces, occurs in
\* the running text: if L exists nothing is emitted, the words after the first
\* L are appended with single spaces, the end becomes the caption's end and
\* the start stays; otherwise the running segment is emitted unchanged and
\* the caption's (start, end, stripped text) becomes the running segment.
C6_Step ==
    AtNonEmptyCaption =>
        LET c == captions[idx]
            words == Split(c.text)
            Ls == MatchLengths(words, current_text, k)
        IN  IF Ls # {}
            THEN /\ merged_segments' = merged_segments
                 /\ current_text' = WithWords(current_text, WordsAfter(words, SetMax(Ls)))
                 /\ current_end' = c.end
                 /\ current_start' = current_start
            ELSE /\ merged_segments' =
                        Append(merged_segments, <<current_start, current_end, current_text>>)
                 /\ current_start' = c.start
                 /\ current_end' = c.end
                 /\ current_text' = Strip(c.text)

\* C6: every step of the merger satisfies C6_Step.
C6_LongestPrefixStep == [][C6_Step]_vars

\* C6 witness: the second caption was fused into the first where two prefix
\* lengths matched, so the choice of the longest one decided the text.
C6_Witness ==
    /\ pc = "done"
    /\ Len(captions) = 2
    /\ Len(merged_segments) = 1
    /\ Cardinality(MatchLengths(Split(captions[2].text), Strip(captions[1].text), k)) >= 2

\* The step fuses the caption at idx into the running segment.
Fuses ==
    /\ AtNonEmptyCaption
    /\ idx' = idx + 1
    /\ merged_segments' = merged_segments

\* ws occurs in the word list of text as a run of consecutive whole words.
WholeWordRun(ws, text) ==
    LET tw == Split(text)
    IN  \E o \in 0..(Len(tw) - Len(ws)) : SubSeq(tw, o + 1, o + Len(ws)) = ws

\* C9 (as claimed): whenever a caption is fused, the elided prefix, L >= k
\* words long, equals a run of L whole words of the accumulated text.
C9_WholeWordStep ==
    Fuses =>
        LET words == Split(captions[idx].text)
        IN  \E L \in k..Len(words) :
                /\ current_text' = WithWords(current_text, WordsAfter(words, L))
                /\ WholeWordRun(FirstWords(words, L), current_text)

\* C9 (as claimed): every step satisfies C9_WholeWordStep.
C9_WholeWordOverlap == [][C9_WholeWordStep]_vars

\* C9 (amended): whenever a caption is fused, the elided prefix, L >= k words
\* long and joined by single spaces, occurs in the accumulated text as a run
\* of consecutive characters, which may begin or end inside a word.
C9_LiteralStep ==
    Fuses =>
        LET words == Split(captions[idx].text)
        IN  \E L \in k..Len(words) :
                /\ current_text' = WithWords(current_text, WordsAfter(words, L))
                /\ OccursIn(Join(FirstWords(words, L)), current_text)

\* C9 (amended): every step satisfies C9_LiteralStep.
C9_LiteralOverlap == [][C9_LiteralStep]_vars

\* C9 witness: the second caption was fused into the first although its words
\* are no run of whole words of the first caption's text.
C9_Witness ==
    /\ pc = "done"
    /\ Len(captions) = 2
    /\ Strip(captions[2].text) # <<>>
    /\ Len(merged_segments) = 1
    /\ \A L \in k..Len(Split(captions[2].text)) :
           ~WholeWordRun(FirstWords(Split(captions[2].text), L), Strip(captions[1].text))

WellTimed(caps) ==
    /\ \A i \in 1..Len(caps) : caps[i].end >= caps[i].start
    /\ \A i \in 1..Len(caps) : \A j \in i..Len(caps) : caps[i].start <= caps[j].start

\* C4 (as claimed): for captions ordered by start with end >= start, every
\* returned segment has end >= start and end >= the end of every caption
\* merged into it.
C4_EndCoversAll ==
    (pc = "done" /\ WellTimed(captions)) =>
        \A j \in 1..Len(merged_segments) :
            /\ merged_segments[j][2] >= merged_segments[j][1]
            /\ \A i \in segment_captions[j] : merged_segments[j][2] >= captions[i].end

\* C4 (amended): for such captions every returned segment has end >= start,
\* and its end is the end of the last caption merged into it.
C4_EndIsLast ==
    (pc = "done" /\ WellTimed(captions)) =>
        \A j \in 1..Len(merged_segments) :
            /\ merged_segments[j][2] >= merged_segments[j][1]
            /\ merged_segments[j][2] = captions[SetMax(segment_captions[j])].end

\* C4 witness: a run on well-timed captions returned a segment made of two
\* captions.
C4_Witness ==
    /\ pc = "done"
    /\ WellTimed(captions)
    /\ \E j \in 1..Len(merged_segments) : Cardinality(segment_captions[j]) >= 2

----------------------------------------------------------------------------
(* refine_segments                                                         *)

\* ShouldFuse with the threshold off by one.
ShouldFuseBelow(out, seg, m) ==
    out # <<>> /\ Len(Split(seg[3])) < m - 1

\* The test of line 99: there is a previous segment and seg is short.
ShouldFuse(out, seg, m) ==
    out # <<>> /\ Len(Split(seg[3])) < m

\* Fused losing the previous segment's text.
FusedDropsText(prev, seg) ==
    <<prev[1], seg[2], Strip(seg[3])>>

\* Fused keeping the previous segment's end.
FusedKeepsEnd(prev, seg) ==
    <<prev[1], prev[2], Strip(prev[3] \o <<" ">> \o seg[3])>>

\* The segment of lines 100-102: prev and seg fused.
Fused(prev, seg) ==
    <<prev[1], seg[2], Strip(prev[3] \o <<" ">> \o seg[3])>>

\* out with its last element popped.
Front(out) == SubSeq(out, 1, Len(out) - 1)

RefineStart ==
    /\ pc = "refine"
    /\ refined' = <<>>
    /\ idx' = 1
    /\ pc' = "refine_loop"
    /\ UNCHANGED <<captions, min_overlap_words, mergeVars, segments, min_words, outVars>>

RefineFuse ==
    /\ pc = "refine_loop"
    /\ idx <= Len(segments)
    /\ ShouldFuse(refined, segments[idx], min_words)
    /\ refined' = Append(Front(refined), Fused(refined[Len(refined)], segments[idx]))
    /\ idx' = idx + 1
    /\ UNCHANGED <<pc, captions, min_overlap_words, mergeVars, segments, min_words, outVars>>

RefineAppend ==
    /\ pc = "refine_loop"
    /\ idx <= Len(segments)
    /\ ~ShouldFuse(refined, segments[idx], min_words)
    /\ refined' = Append(refined, segments[idx])
    /\ idx' = idx + 1
    /\ UNCHANGED <<pc, captions, min_overlap_words, mergeVars, segments, min_words, outVars>>

RefineReturn ==
    /\ pc = "refine_loop"
    /\ idx > Len(segments)
    /\ pc' = "done"
    /\ UNCHANGED <<captions, min_overlap_words, idx, mergeVars, refineVars, outVars>>

\* refine_segments as a function of its arguments: the loop from segment i
\* on, out being the list refined so far.
RECURSIVE RefineFrom(_, _, _, _)
RefineFrom(segs, i, out, m) ==
    IF i > Len(segs) THEN out
    ELSE IF ShouldFuse(out, segs[i], m)
    THEN RefineFrom(segs, i + 1, Append(Front(out), Fused(out[Len(out)], segs[i])), m)
    ELSE RefineFrom(segs, i + 1, Append(out, segs[i]), m)

refine_segments(segs, m) == RefineFrom(segs, 1, <<>>, m)

\* Segment texts of zero to three words, stripped or not.
SegTexts ==
    {<<>>, <<" ">>, <<"a">>, <<" ", "a", " ">>, <<"a", " ", "a">>,
     <<"a", " ", "a", " ", "a">>}

\* The segment list with texts txt and the time windows of Spaced.
SpacedSegments(txt) ==
    [i \in 1..Len(txt) |-> <<2 * (i - 1), 2 * i - 1, txt[i]>>]

InitRefine ==
    /\ pc = "refine"
    /\ \E n \in 0..MaxSegments : \E txt \in [1..n -> SegTexts] :
           segments = SpacedSegments(txt)
    /\ min_words \in 1..MaxWords
    /\ captions = <<>> /\ min_overlap_words = DefaultMinOverlapWords
    /\ PunctuationModel = "class"
    /\ Idle

NextRefine ==
    \/ RefineStart
    \/ RefineFuse
    \/ RefineAppend
    \/ RefineReturn

SpecRefine == InitRefine /\ [][NextRefine]_vars

----------------------------------------------------------------------------
(* Properties of refine_segments.                                          *)

WordCount(text) == Len(Split(text))

\* C2: in the returned list no segment other than the first has fewer than m
\* words.
C2_NoShortSegment ==
    pc = "done" =>
        \A i \in 2..Len(refined) : WordCount(refined[i][3]) >= min_words

\* C2 witness: a run that fused a short segment and returned two or more
\* segments.
C2_Witness ==
    /\ pc = "done"
    /\ Len(refined) >= 2
    /\ Len(refined) < Len(segments)

\* C3: refining the returned list again, with the same m, returns it
\* unchanged.
C3_Idempotent ==
    pc = "done" => refine_segments(refined, min_words) = refined

\* C3 witness: the first pass changed its input, and its result has a short
\* first segment followed by another segment.
C3_Witness ==
    /\ pc = "done"
    /\ refined # segments
    /\ Len(refined) >= 2
    /\ WordCount(refined[1][3]) < min_words

\* The loop of refine_segments is at a segment.
AtSegment == pc = "refine_loop" /\ idx <= Len(segments)

\* C10 (as claimed): a short segment met with a non-empty output list
\* replaces the last output (ps, pe, pt) by (ps, segment end, pt + " " +
\* segment text), the output length unchanged; any other segment is appended
\* unchanged.
C10_FuseExactStep ==
    AtSegment =>
        LET seg == segments[idx]
        IN  IF refined # <<>> /\ WordCount(seg[3]) < min_words
            THEN LET prev == refined[Len(refined)]
                 IN  /\ Len(refined') = Len(refined)
                     /\ Front(refined') = Front(refined)
                     /\ refined'[Len(refined)] =
                            <<prev[1], seg[2], prev[3] \o <<" ">> \o seg[3]>>
            ELSE refined' = Append(refined, seg)

\* C10 (as claimed): every step of the refiner satisfies C10_FuseExactStep.
C10_FuseExact == [][C10_FuseExactStep]_vars

\* C10 (amended): as claimed, except that the fused text is pt + " " +
\* segment text with its leading and trailing whitespace removed.
C10_FuseStrippedStep ==
    AtSegment =>
        LET seg == segments[idx]
        IN  IF refined # <<>> /\ WordCount(seg[3]) < min_words
            THEN LET prev == refined[Len(refined)]
                 IN  /\ Len(refined') = Len(refined)
                     /\ Front(refined') = Front(refined)
                     /\ refined'[Len(refined)] =
                            <<prev[1], seg[2], Strip(prev[3] \o <<" ">> \o seg[3])>>
            ELSE refined' = Append(refined, seg)

\* C10 (amended): every step of the refiner satisfies C10_FuseStrippedStep.
C10_FuseStripped == [][C10_FuseStrippedStep]_vars

\* C10 witness: a short first segment was emitted unchanged and a later short
\* segment was fused into the output.
C10_Witness ==
    /\ pc = "done"
    /\ Len(segments) >= 2
    /\ WordCount(segments[1][3]) < min_words
    /\ refined[1][1] = segments[1][1]
    /\ Len(refined) < Len(segments)

----------------------------------------------------------------------------
(* The documents.  A line of the html list is a record: a line of fixed    *)
(* markup carries its text in tag; the timestamp line and the text line of *)
(* an entry carry the values formatted into them.                          *)

Markup(s) == [tag |-> s, start |-> 0, end |-> 0, text |-> <<>>]
TimestampLine(start, end) == [tag |-> "timestamp", start |-> start, end |-> end, text |-> <<>>]
TextLine(text) == [tag |-> "text", start |-> 0, end |-> 0, text |-> text]

Header(class) ==
    <<Markup("<!DOCTYPE html>"), Markup("<html>"), Markup("<head>"),
      Markup("<meta charset='utf-8'>"), Markup("<title>Transcript</title>"),
      Markup("<style>"), Markup("body"), Markup(class), Markup(".timestamp"),
      Markup(".text"), Markup("</style>"), Markup("</head>"), Markup("<body>"),
      Markup("<h1>Transcript</h1>")>>

Footer == <<Markup("</body>"), Markup("</html>")>>

\* The four lines appended for one entry.
Entry(class, start, end, text) ==
    <<Markup(class), TimestampLine(start, end), TextLine(text), Markup("</div>")>>

----------------------------------------------------------------------------
(* convert_vtt_to_html_minimal                                             *)

MinimalRead ==
    /\ pc = "minimal"
    /\ html' = Header(".caption")
    /\ idx' = 1
    /\ pc' = "minimal_loop"
    /\ UNCHANGED <<captions, min_overlap_words, mergeVars, refineVars,
                   PunctuationModel, model, file>>

\* webvtt.read raises: the exception leaves the function.
MinimalReadFail ==
    /\ pc = "minimal"
    /\ pc' = "raised"
    /\ UNCHANGED <<captions, min_overlap_words, idx, mergeVars, refineVars, outVars>>

\* MinimalRender writing the caption's text as it is, not stripped.
MinimalRenderRaw ==
    /\ pc = "minimal_loop"
    /\ idx <= Len(captions)
    /\ LET caption == captions[idx]
       IN  /\ Strip(caption.text) # <<>>
           /\ html' = html \o Entry("<div class='caption'>", caption.start, caption.end,
                                    caption.text)
    /\ idx' = idx + 1
    /\ UNCHANGED <<pc, captions, min_overlap_words, mergeVars, refineVars,
                   PunctuationModel, model, file>>

MinimalRender ==
    /\ pc = "minimal_loop"
    /\ idx <= Len(captions)
    /\ LET caption == captions[idx]
           text == Strip(caption.text)
       IN  /\ text # <<>>
           /\ html' = html \o Entry("<div class='caption'>", caption.start, caption.end, text)
    /\ idx' = idx + 1
    /\ UNCHANGED <<pc, captions, min_overlap_words, mergeVars, refineVars,
                   PunctuationModel, model, file>>

MinimalSkip ==
    /\ pc = "minimal_loop"
    /\ idx <= Len(captions)
    /\ Strip(captions[idx].text) = <<>>
    /\ idx' = idx + 1
    /\ UNCHANGED <<pc, captions, min_overlap_words, mergeVars, refineVars, outVars>>

MinimalWrite ==
    /\ pc = "minimal_loop"
    /\ idx > Len(captions)
    /\ html' = html \o Footer
    /\ file' = <<html'>>
    /\ pc' = "done"
    /\ UNCHANGED <<captions, min_overlap_words, idx, mergeVars, refineVars,
                   PunctuationModel, model>>

InitMinimal ==
    /\ pc = "minimal"
    /\ \E n \in 0..MaxCaptions : \E txt \in [1..n -> Texts] : captions = Spaced(txt)
    /\ min_overlap_words = DefaultMinOverlapWords
    /\ segments = <<>> /\ min_words = DefaultMinWords
    /\ PunctuationModel \in {"None", "class"}
    /\ Idle

NextMinimal ==
    \/ MinimalRead
    \/ MinimalReadFail
    \/ MinimalRender
    \/ MinimalSkip
    \/ MinimalWrite

SpecMinimal == InitMinimal /\ [][NextMinimal]_vars

----------------------------------------------------------------------------
(* convert_vtt_to_html_full                                                *)

\* model.restore_punctuation(text): the external model's answer, which this
\* model takes to be the text with a full stop added.
Punctuate(text) == text \o <<".">>

FullExit ==
    /\ pc = "full"
    /\ PunctuationModel = "None"
    /\ pc' = "exited"
    /\ UNCHANGED <<captions, min_overlap_words, idx, mergeVars, refineVars, outVars>>

FullRead ==
    /\ pc = "full"
    /\ PunctuationModel # "None"
    /\ segments' = refine_segments(
                       merge_captions_global(captions, DefaultMinOverlapWords),
                       DefaultMinWords)
    /\ pc' = "full_model"
    /\ UNCHANGED <<captions, min_overlap_words, idx, mergeVars, min_words, refined,
                   outVars>>

\* webvtt.read raises.
FullReadFail ==
    /\ pc = "full"
    /\ PunctuationModel # "None"
    /\ pc' = "raised"
    /\ UNCHANGED <<captions, min_overlap_words, idx, mergeVars, refineVars, outVars>>

\* FullModelInit opening the output file before the segments are rendered.
FullModelInitOpensFile ==
    /\ pc = "full_model"
    /\ model' = "ready"
    /\ html' = Header(".segment")
    /\ file' = <<html'>>
    /\ idx' = 1
    /\ pc' = "full_loop"
    /\ UNCHANGED <<captions, min_overlap_words, mergeVars, refineVars, PunctuationModel>>

FullModelInit ==
    /\ pc = "full_model"
    /\ model' = "ready"
    /\ html' = Header(".segment")
    /\ idx' = 1
    /\ pc' = "full_loop"
    /\ UNCHANGED <<captions, min_overlap_words, mergeVars, refineVars,
                   PunctuationModel, file>>

\* PunctuationModel() raises.
FullModelInitFail ==
    /\ pc = "full_model"
    /\ pc' = "raised"
    /\ UNCHANGED <<captions, min_overlap_words, idx, mergeVars, refineVars, outVars>>

FullSkipBlank ==
    /\ pc = "full_loop"
    /\ idx <= Len(segments)
    /\ Strip(segments[idx][3]) = <<>>
    /\ idx' = idx + 1
    /\ UNCHANGED <<pc, captions, min_overlap_words, mergeVars, refineVars, outVars>>

FullPunctuate ==
    /\ pc = "full_loop"
    /\ idx <= Len(segments)
    /\ Strip(segments[idx][3]) # <<>>
    /\ html' = html \o Entry("<div class='segment'>", segments[idx][1], segments[idx][2],
                             Punctuate(segments[idx][3]))
    /\ idx' = idx + 1
    /\ UNCHANGED <<pc, captions, min_overlap_words, mergeVars, refineVars,
                   PunctuationModel, model, file>>

\* model.restore_punctuation raises.
FullPunctuateFail ==
    /\ pc = "full_loop"
    /\ idx <= Len(segments)
    /\ Strip(segments[idx][3]) # <<>>
    /\ pc' = "raised"
    /\ UNCHANGED <<captions, min_overlap_words, idx, mergeVars, refineVars, outVars>>

FullWrite ==
    /\ pc = "full_loop"
    /\ idx > Len(segments)
    /\ html' = html \o Footer
    /\ file' = <<html'>>
    /\ pc' = "done"
    /\ UNCHANGED <<captions, min_overlap_words, idx, mergeVars, refineVars,
                   PunctuationModel, model>>

\* Caption texts of one to four words, some overlapping by three words.
FullTexts ==
    {<<>>, <<"a">>, <<"a", " ", "a", " ", "a">>,
     <<"a", "a", " ", "a", " ", "a">>,
     <<"a", " ", "a", " ", "a", " ", "a", "a">>}

InitFull ==
    /\ pc = "full"
    /\ \E n \in 0..MaxCaptions : \E txt \in [1..n -> FullTexts] : captions = Spaced(txt)
    /\ min_overlap_words = DefaultMinOverlapWords
    /\ segments = <<>> /\ min_words = DefaultMinWords
    /\ PunctuationModel \in {"None", "class"}
    /\ Idle

NextFull ==
    \/ FullExit
    \/ FullRead
    \/ FullReadFail
    \/ FullModelInit
    \/ FullModelInitFail
    \/ FullSkipBlank
    \/ FullPunctuate
    \/ FullPunctuateFail
    \/ FullWrite

SpecFull == InitFull /\ [][NextFull]_vars

----------------------------------------------------------------------------
(* Properties of the converters.                                           *)

\* The entries of a document, in order: (start, end, text) of each timestamp
\* line and the text line after it.
RECURSIVE EntriesFrom(_, _)
EntriesFrom(doc, i) ==
    IF i >= Len(doc) THEN <<>>
    ELSE IF doc[i].tag = "timestamp" /\ doc[i + 1].tag = "text"
    THEN <<<<doc[i].start, doc[i].end, doc[i + 1].text>>>> \o EntriesFrom(doc, i + 2)
    ELSE EntriesFrom(doc, i + 1)

Entries(doc) == EntriesFrom(doc, 1)

\* (start, end, stripped text) of each caption of caps.
Stripped(caps) ==
    [i \in 1..Len(caps) |-> <<caps[i].start, caps[i].end, Strip(caps[i].text)>>]

\* C8: the entries of the minimal document are the captions with non-empty
\* stripped text, in input order, each once, with its own start, end and
\* stripped text.
C8_MinimalEntries ==
    pc = "done" => Entries(file[1]) = Stripped(DropEmpty(captions))

\* C8 witness: a document written from an empty-text caption and a caption
\* with whitespace around its text.
C8_Witness ==
    /\ pc = "done"
    /\ file # <<>>
    /\ \E i \in 1..Len(captions) : Strip(captions[i].text) = <<>>
    /\ \E i \in 1..Len(captions) :
           Strip(captions[i].text) # <<>> /\ Strip(captions[i].text) # captions[i].text

\* The segments the full mode renders: those whose stripped text is not
\* empty.
RECURSIVE Rendered(_)
Rendered(segs) ==
    IF segs = <<>> THEN <<>>
    ELSE IF Strip(segs[1][3]) = <<>> THEN Rendered(Tail(segs))
    ELSE <<segs[1]>> \o Rendered(Tail(segs))

\* C7: in full mode a file is written only once the model has been built and
\* every rendered segment punctuated, and a run that exits or raises (no
\* model class, a failed construction, a failed punctuation call) leaves no
\* file.
C7_NoPartialOutput ==
    /\ file # <<>> =>
           /\ pc = "done"
           /\ PunctuationModel = "class"
           /\ model = "ready"
           /\ Len(Entries(file[1])) = Len(Rendered(segments))
           /\ \A i \in 1..Len(Rendered(segments)) :
                  Entries(file[1])[i][3] = Punctuate(Rendered(segments)[i][3])
    /\ pc \in {"exited", "raised"} => file = <<>>
    /\ PunctuationModel = "None" => pc \in {"full", "exited"}

\* C7 witness: a punctuation call raised after an earlier segment had been
\* punctuated, and no file exists.
C7_Witness ==
    /\ pc = "raised"
    /\ model = "ready"
    /\ Entries(html) # <<>>
    /\ file = <<>>

====
